---- MODULE Spec2Model ----
(***************************************************************************)
(* A model of darker's format_edited_parts (src/darker/__main__.py) and of *)
(* the Git content reader it depends on (src/darker/git.py).               *)
(*                                                                         *)
(* A document is a sequence of lines; a line is a string.  A Python str    *)
(* holding a file's text is the record [lines, nl]: its lines and whether  *)
(* the text ends with a newline.  No line of the model is the empty        *)
(* string, so the representation is canonical once the empty text is       *)
(* [lines |-> <<>>, nl |-> FALSE].                                         *)
(*                                                                         *)
(* darker.diff, darker.chooser, darker.verification, darker.utils,         *)
(* darker.black_diff and darker.import_sorting are imported by __main__.py *)
(* but are not part of the source tree at hand; their operators below      *)
(* follow the design document (sections 4.1 - 4.5 and 6).                  *)
(***************************************************************************)
EXTENDS Integers, Sequences, FiniteSets, TLC

\* ------------------------------------------------------------------------
\* Bounds of the model
\* ------------------------------------------------------------------------

\* Most lines the three documents of a file (at HEAD, edited, reformatted)
\* have together in the chunk-reconciliation specification.
MaxPipeLines == 6

\* Most lines the three documents of a file have together in the
\* orchestrator specification.
MaxDocLines == 4

\* The line values documents are built from.
LineVals == {"a", "b"}

\* The paths git may report as changed, in the order a run visits them.
PathOrder == <<"p.py", "q.py">>

Paths == {PathOrder[k] : k \in DOMAIN PathOrder}

\* ------------------------------------------------------------------------
\* Generic helpers
\* ------------------------------------------------------------------------

Min(x, y) == IF x <= y THEN x ELSE y

Max(x, y) == IF x >= y THEN x ELSE y

\* Python's s[lo:hi] on a sequence, 0-based and half-open.
Slice(s, lo, hi) == SubSeq(s, lo + 1, hi)

\* All sequences over S of length at most n.
SeqsUpTo(S, n) == UNION {[1..k -> S] : k \in 0..n}

RECURSIVE SortedSeq(_)
\* list(sorted(S)) for a finite set of integers.
SortedSeq(S) ==
    IF S = {} THEN <<>>
    ELSE LET m == CHOOSE x \in S : \A y \in S : x <= y
         IN <<m>> \o SortedSeq(S \ {m})

RECURSIVE Concat(_)
\* The concatenation of a sequence of sequences.
Concat(ss) == IF ss = <<>> THEN <<>> ELSE Head(ss) \o Concat(Tail(ss))

ElemsOf(s) == {s[k] : k \in DOMAIN s}

\* ------------------------------------------------------------------------
\* Text: Python str values holding a file's content
\* ------------------------------------------------------------------------

\* The str made of the given lines, with or without a final newline.
Text(lines, nl) == [lines |-> lines, nl |-> nl /\ lines # <<>>]


\* str.splitlines(): the lines, without their line ends.
splitlines(text) == text.lines

RECURSIVE SumLineLens(_)
SumLineLens(lines) ==
    IF lines = <<>> THEN 0 ELSE Len(Head(lines)) + SumLineLens(Tail(lines))

\* len(str): the number of characters, line ends included.
StrLen(text) ==
    SumLineLens(text.lines)
    + (IF text.lines = <<>> THEN 0 ELSE Len(text.lines) - 1)
    + (IF text.nl THEN 1 ELSE 0)

\* darker.utils.joinlines: every line followed by a newline.
joinlines(lines) == Text(lines, TRUE)

\* The texts of at most n lines a file access object hands out: the lines
\* of the file, each ended by a newline.
FileTexts(n) == {joinlines(ls) : ls \in SeqsUpTo(LineVals, n)}

\* ------------------------------------------------------------------------
\* Line-Diff Engine (design section 4.1): longest-matching-block alignment
\* ------------------------------------------------------------------------

RECURSIVE MatchLen(_, _, _, _, _, _)
\* Length of the common run of a[i:ahi] and b[j:bhi] starting at i and j.
MatchLen(a, b, i, j, ahi, bhi) ==
    IF i < ahi /\ j < bhi /\ a[i + 1] = b[j + 1]
    THEN 1 + MatchLen(a, b, i + 1, j + 1, ahi, bhi)
    ELSE 0

\* The longest block a[i:i+k] = b[j:j+k] within a[alo:ahi], b[blo:bhi]; of all
\* longest blocks the one starting earliest in a, then earliest in b.
find_longest_match(a, b, alo, ahi, blo, bhi) ==
    LET cands == {<<i, j, MatchLen(a, b, i, j, ahi, bhi)>> :
                      i \in alo..(ahi - 1), j \in blo..(bhi - 1)}
        NoWorse(c, d) ==
            \/ c[3] > d[3]
            \/ c[3] = d[3] /\ c[1] < d[1]
            \/ c[3] = d[3] /\ c[1] = d[1] /\ c[2] <= d[2]
    IN IF cands = {} THEN <<alo, blo, 0>>
       ELSE LET best == CHOOSE c \in cands : \A d \in cands : NoWorse(c, d)
            IN IF best[3] = 0 THEN <<alo, blo, 0>> ELSE best

RECURSIVE matching_blocks(_, _, _, _, _, _)
\* The matching blocks of a[alo:ahi] and b[blo:bhi], in increasing order:
\* the longest block, and recursively those to its left and to its right.
matching_blocks(a, b, alo, ahi, blo, bhi) ==
    LET m == find_longest_match(a, b, alo, ahi, blo, bhi)
    IN IF m[3] = 0 THEN <<>>
       ELSE matching_blocks(a, b, alo, m[1], blo, m[2])
            \o <<m>>
            \o matching_blocks(a, b, m[1] + m[3], ahi, m[2] + m[3], bhi)

Opcode(tag, i1, i2, j1, j2) ==
    [tag |-> tag, i1 |-> i1, i2 |-> i2, j1 |-> j1, j2 |-> j2]

RECURSIVE opcodes_from(_, _, _)
\* The opcodes for the remaining blocks, (i, j) being the end of the last one.
opcodes_from(blocks, i, j) ==
    IF blocks = <<>> THEN <<>>
    ELSE LET ai == Head(blocks)[1]
             bj == Head(blocks)[2]
             size == Head(blocks)[3]
             gap == IF i < ai /\ j < bj THEN <<Opcode("replace", i, ai, j, bj)>>
                    ELSE IF i < ai THEN <<Opcode("delete", i, ai, j, bj)>>
                    ELSE IF j < bj THEN <<Opcode("insert", i, ai, j, bj)>>
                    ELSE <<>>
             same == IF size > 0
                     THEN <<Opcode("equal", ai, ai + size, bj, bj + size)>>
                     ELSE <<>>
         IN gap \o same \o opcodes_from(Tail(blocks), ai + size, bj + size)

\* diff(a, b): the edit script turning a into b.
diff_and_get_opcodes(a, b) ==
    opcodes_from(matching_blocks(a, b, 0, Len(a), 0, Len(b))
                     \o <<(<<Len(a), Len(b), 0>>)>>,
                 0, 0)

\* ------------------------------------------------------------------------
\* Edited-Range Extractor (design section 4.2)
\* ------------------------------------------------------------------------

\* The lines number - context .. number + context, clipped to [1, max_line].
Dilate(number, context, max_line) ==
    Max(1, number - context)..Min(max_line, number + context)

RECURSIVE edit_linenum_set(_, _, _)
\* The line numbers the opcodes contribute, one opcode after the other.
edit_linenum_set(opcodes, context, max_line) ==
    IF opcodes = <<>> THEN {}
    ELSE LET op == Head(opcodes)
             own == IF op.tag = "equal" THEN {}
                    ELSE UNION {Dilate(n, context, max_line) :
                                    n \in (op.j1 + 1)..op.j2}
         IN own \cup edit_linenum_set(Tail(opcodes), context, max_line)

\* edited_linenums(opcodes, context): ascending, without duplicates.
opcodes_to_edit_linenums(opcodes, context) ==
    IF opcodes = <<>> THEN <<>>
    ELSE SortedSeq(edit_linenum_set(opcodes, context,
                                    opcodes[Len(opcodes)].j2))

\* ------------------------------------------------------------------------
\* Chunk Builder (design section 4.3)
\* ------------------------------------------------------------------------

\* One chunk per opcode, in opcode order.
opcodes_to_chunks(opcodes, src, dst) ==
    [k \in DOMAIN opcodes |->
        [start_linenum |-> opcodes[k].j1 + 1,
         original_lines |-> Slice(src, opcodes[k].i1, opcodes[k].i2),
         reformatted_lines |-> Slice(dst, opcodes[k].j1, opcodes[k].j2)]]

\* ------------------------------------------------------------------------
\* Chunk Chooser (design section 4.4)
\* ------------------------------------------------------------------------

\* Whether one of the line numbers lies in start .. start + length - 1.
any_item_in_range(items, start, length) ==
    \E k \in DOMAIN items : start <= items[k] /\ items[k] <= start + length - 1

RECURSIVE choose_lines(_, _)
\* For every chunk in order, its reformatted lines if its span holds an edited
\* line and its original lines otherwise.
choose_lines(chunks, edited_linenums) ==
    IF chunks = <<>> THEN <<>>
    ELSE LET chunk == Head(chunks)
             chunk_has_edits ==
                 any_item_in_range(edited_linenums, chunk.start_linenum,
                                   Len(chunk.original_lines))
         IN (IF chunk_has_edits THEN chunk.reformatted_lines
             ELSE chunk.original_lines)
            \o choose_lines(Tail(chunks), edited_linenums)

\* ------------------------------------------------------------------------
\* External collaborators (design section 6)
\* ------------------------------------------------------------------------

\* How often value v occurs in sequence s.
Count(s, v) == Cardinality({k \in DOMAIN s : s[k] = v})

\* apply_isort: the import sorter only reorders the lines of the text.
IsortResults(text) ==
    {Text(ls, text.nl) :
        ls \in {s \in [1..Len(text.lines) -> LineVals] :
                   \A v \in LineVals : Count(s, v) = Count(text.lines, v)}}

\* What run_black may do with a text of at most n lines: return any document
\* of at most n lines, or reject the input.
BlackResults(n) ==
    {[ok |-> TRUE, lines |-> ls] : ls \in SeqsUpTo(LineVals, n)}
    \cup {[ok |-> FALSE, lines |-> <<>>]}

\* git show <revision>:./<path> piped through splitlines(): check_output
\* raises CalledProcessError when git exits with an error, which it does for
\* a path that does not exist at the revision.
git_get_content(exists, lines) ==
    IF exists THEN [raised |-> FALSE, lines |-> lines]
    ELSE [raised |-> TRUE, lines |-> <<>>]

\* git_get_unmodified_content: the content at HEAD.
git_get_unmodified_content(exists, lines) == git_get_content(exists, lines)

\* ------------------------------------------------------------------------
\* format_edited_parts: the steps of one attempt
\* ------------------------------------------------------------------------

\* max_context_lines = len(edited_content), edited_content being a str.
MaxContextLines(edited_content) == StrLen(edited_content)

\* Mutant: the context grows by two lines per retry.
NextContext_StepTwo(context_lines) == context_lines + 2

\* The value range(max_context_lines + 1) yields after context_lines.
NextContext(context_lines) == context_lines + 1

\* 2. diff HEAD and worktree for the file
EditedOpcodes(head_lines, edited) == diff_and_get_opcodes(head_lines, edited)

\* Mutant: the context is not passed on.
EditedLinenums_NoContext(edited_opcodes, context_lines) ==
    opcodes_to_edit_linenums(edited_opcodes, 0)

\* Mutant: the context is passed on with the wrong sign.
EditedLinenums_NegatedContext(edited_opcodes, context_lines) ==
    opcodes_to_edit_linenums(edited_opcodes, 0 - context_lines)

\* 3. extract line numbers in each edited to-file for changed lines
EditedLinenums(edited_opcodes, context_lines) ==
    opcodes_to_edit_linenums(edited_opcodes, context_lines)

\* Mutant: the early exit does not ask whether isort is enabled.
NoChangesAfterIsort_AnyMode(isort_enabled, edited_linenums, edited_content, modified) ==
    edited_linenums = <<>> /\ edited_content = modified

\* The early exit: nothing to do after isort.
NoChangesAfterIsort(isort_enabled, edited_linenums, edited_content, modified) ==
    isort_enabled /\ edited_linenums = <<>> /\ edited_content = modified

\* 5. get the diff between each edited and reformatted file
BlackOpcodes(edited, formatted) == diff_and_get_opcodes(edited, formatted)

\* Mutant: chunks are built for the changed regions only.
BlackChunks_ChangedOnly(opcodes, edited, formatted) ==
    opcodes_to_chunks(SelectSeq(opcodes, LAMBDA op : op.tag # "equal"),
                      edited, formatted)

\* 6. convert the diff into chunks
BlackChunks(opcodes, edited, formatted) ==
    opcodes_to_chunks(opcodes, edited, formatted)

\* Mutant: black's output is taken for every chunk.
ChosenLines_AllReformatted(black_chunks, edited_linenums) ==
    Concat([k \in DOMAIN black_chunks |-> black_chunks[k].reformatted_lines])

\* Mutant: a chunk is reformatted only if its first line was edited.
ChosenLines_FirstLineOnly(black_chunks, edited_linenums) ==
    Concat([k \in DOMAIN black_chunks |->
               IF black_chunks[k].start_linenum \in ElemsOf(edited_linenums)
               THEN black_chunks[k].reformatted_lines
               ELSE black_chunks[k].original_lines])

\* 7. choose reformatted content
ChosenLines(black_chunks, edited_linenums) ==
    choose_lines(black_chunks, edited_linenums)

\* 8. concatenate chosen chunks
ResultStr(chosen_lines) == joinlines(chosen_lines)

\* What an iteration hands to git_file_access.write or prints: nothing,
\* ("write", content), or ("print", a, b) for the diff of a and b.
Output(kind, content, a, b) ==
    [kind |-> kind, content |-> content, a |-> a, b |-> b]

NoOutput == Output("none", Text(<<>>, FALSE), <<>>, <<>>)

\* Steps 2 - 8 for one file and one context, before verification.
RunPipeline(file, context) ==
    LET edited == splitlines(file.edited_content)
        edited_opcodes == EditedOpcodes(file.head_lines, edited)
        edited_linenums == EditedLinenums(edited_opcodes, context)
        formatted == file.formatted.lines
        opcodes == BlackOpcodes(edited, formatted)
        black_chunks == BlackChunks(opcodes, edited, formatted)
        chosen_lines == ChosenLines(black_chunks, edited_linenums)
    IN [path |-> file.path,
        context_lines |-> context,
        edited_opcodes |-> edited_opcodes,
        edited_linenums |-> edited_linenums,
        opcodes |-> opcodes,
        black_chunks |-> black_chunks,
        chosen_lines |-> chosen_lines,
        result_str |-> ResultStr(chosen_lines),
        verdict |-> "none",
        emitted |-> NoOutput]

\* Mutant: a NotEquivalentError at the last context is swallowed and the
\* result is emitted all the same.
AfterVerify_AcceptAtBound(equivalent, context_lines, max_context_lines) ==
    IF equivalent THEN "accept"
    ELSE IF context_lines = max_context_lines THEN "accept"
    ELSE "retry"

\* Mutant: a NotEquivalentError is never raised again, the loop just goes on.
AfterVerify_NeverRaise(equivalent, context_lines, max_context_lines) ==
    IF equivalent THEN "accept" ELSE "retry"

\* 9. what the try / except / else around verify_ast_unchanged does next.
AfterVerify(equivalent, context_lines, max_context_lines) ==
    IF equivalent THEN "accept"
    ELSE IF context_lines = max_context_lines THEN "raise"
    ELSE "retry"

\* 10. the content handed to git_file_access.write.
WrittenContent(att) == att.result_str

\* 10. the lines unified_diff compares the modified source with.
DiffedLines(att) == att.chosen_lines

\* 10. difflib.unified_diff(a, b) and the len(difflines) > 2 test: equal
\* sequences give no lines and nothing is printed; otherwise the two header
\* lines and the hunks turning a into b are.
unified_diff(a, b) ==
    IF a = b THEN NoOutput ELSE Output("print", Text(<<>>, FALSE), a, b)

\* ------------------------------------------------------------------------
\* State
\* ------------------------------------------------------------------------

VARIABLES
    enable_isort,   \* parameter: run isort first
    print_diff,     \* parameter: print diffs instead of writing files
    changed,        \* the changed files, in the order the loop visits them
    absent,         \* the changed files that do not exist at HEAD
    pc,             \* "start", "next_file", "attempt", "file_done", "done", "failed"
    idx,            \* position in changed of the file being processed
    cur,            \* the documents of the file being processed
    context_lines,  \* the loop variable of the retry loop
    attempt,        \* what the last iteration of the retry loop computed
    tried,          \* the iterations made for the current file so far
    written,        \* the paths git_file_access.write was called for, in order
    printed,        \* the paths a diff was printed for, in order
    outcome,        \* per path: "pending", "accepted", "skipped", "failed"
    error           \* the exception that ended the run, if any

vars == <<enable_isort, print_diff, changed, absent, pc, idx, cur,
          context_lines, attempt, tried, written, printed, outcome, error>>

NoFile ==
    [path |-> "", head_lines |-> <<>>, git_modified |-> Text(<<>>, FALSE),
     edited_content |-> Text(<<>>, FALSE),
     formatted |-> [ok |-> TRUE, lines |-> <<>>], max_context_lines |-> 0]

NoAttempt ==
    [path |-> "", context_lines |-> 0, edited_opcodes |-> <<>>,
     edited_linenums |-> <<>>, opcodes |-> <<>>, black_chunks |-> <<>>,
     chosen_lines |-> <<>>, result_str |-> Text(<<>>, FALSE),
     verdict |-> "none", emitted |-> NoOutput]

\* The changed files a run may find, in the order the loop visits them.
ChangedFiles ==
    {s \in SeqsUpTo(DOMAIN PathOrder, Len(PathOrder)) :
        \A j, k \in DOMAIN s : j < k => s[j] < s[k]}

\* The paths at the given positions of PathOrder.
PathsAt(s) == [k \in DOMAIN s |-> PathOrder[s[k]]]

\* The locals of the outer loop for one file.
FileOf(path, head_lines, git_modified, edited_content, formatted) ==
    [path |-> path, head_lines |-> head_lines, git_modified |-> git_modified,
     edited_content |-> edited_content, formatted |-> formatted,
     max_context_lines |-> MaxContextLines(edited_content)]

\* What edited_srcs.items() may yield for one path: the content at HEAD, the
\* modified content, the content after the optional isort, black's output.
FilesOf(path, isort_enabled, n) ==
    UNION {
        {FileOf(path, h, m, e, f) :
            e \in (IF isort_enabled THEN IsortResults(m) ELSE {m})} :
        <<m, h, f>> \in {t \in FileTexts(n) \X SeqsUpTo(LineVals, n)
                                \X BlackResults(n) :
                            Len(t[1].lines) + Len(t[2]) + Len(t[3].lines) <= n}}

\* verify_ast_unchanged(edited_content, result_str, ...) either returns or
\* raises NotEquivalentError; it is a function of the two texts, so a
\* candidate it has judged for this file is judged the same way again.
verify_ast_unchanged(history, result_str) ==
    {equivalent \in BOOLEAN :
        \A k \in DOMAIN history :
            history[k].result_str = result_str
                => history[k].verdict = (IF equivalent THEN "ok" ELSE "fail")}

Init ==
    /\ enable_isort \in BOOLEAN
    /\ print_diff \in BOOLEAN
    /\ changed \in {PathsAt(s) : s \in ChangedFiles}
    /\ absent \in SUBSET ElemsOf(changed)
    /\ pc = "start"
    /\ idx = 0
    /\ cur = NoFile
    /\ context_lines = 0
    /\ attempt = NoAttempt
    /\ tried = <<>>
    /\ written = <<>>
    /\ printed = <<>>
    /\ outcome = [p \in Paths |-> "pending"]
    /\ error = ""

\* ------------------------------------------------------------------------
\* Actions
\* ------------------------------------------------------------------------

\* get_head_srcs(), get_modified_srcs() and the optional isort pass: the
\* content at HEAD is read for every changed file before the loop starts.
ReadSources ==
    /\ pc = "start"
    /\ IF \E k \in DOMAIN changed :
              git_get_unmodified_content(changed[k] \notin absent, <<>>).raised
       THEN /\ pc' = "failed"
            /\ error' = "CalledProcessError"
            /\ idx' = idx
       ELSE /\ pc' = "next_file"
            /\ error' = error
            /\ idx' = 1
    /\ UNCHANGED <<enable_isort, print_diff, changed, absent, cur,
                   context_lines, attempt, tried, written, printed, outcome>>

\* The outer loop takes the next file and starts its retry loop at context 0.
BeginFile(n) ==
    /\ pc = "next_file"
    /\ idx <= Len(changed)
    /\ \E file \in FilesOf(changed[idx], enable_isort, n) : cur' = file
    /\ context_lines' = 0
    /\ attempt' = NoAttempt
    /\ tried' = <<>>
    /\ pc' = "attempt"
    /\ UNCHANGED <<enable_isort, print_diff, changed, absent, idx, written,
                   printed, outcome, error>>

\* The outer loop is exhausted: format_edited_parts returns.
Finish ==
    /\ pc = "next_file"
    /\ idx > Len(changed)
    /\ pc' = "done"
    /\ UNCHANGED <<enable_isort, print_diff, changed, absent, idx, cur,
                   context_lines, attempt, tried, written, printed, outcome,
                   error>>

\* The iteration record kept in tried.
Iteration(att) ==
    [context_lines |-> att.context_lines, result_str |-> att.result_str,
     verdict |-> att.verdict]

\* break: the file's retry loop is left.
LeaveFile(att, how) ==
    /\ attempt' = att
    /\ tried' = Append(tried, Iteration(att))
    /\ outcome' = [outcome EXCEPT ![cur.path] = how]
    /\ pc' = "file_done"
    /\ UNCHANGED <<enable_isort, print_diff, changed, absent, idx, cur,
                   context_lines, error>>

\* After a break the outer loop goes on to the file after this one; the
\* locals of the finished file are dropped.
EndFile ==
    /\ pc = "file_done"
    /\ pc' = "next_file"
    /\ idx' = idx + 1
    /\ cur' = NoFile
    /\ context_lines' = 0
    /\ attempt' = NoAttempt
    /\ tried' = <<>>
    /\ UNCHANGED <<enable_isort, print_diff, changed, absent, written,
                   printed, outcome, error>>

\* Mutant: the failing file is given up and the outer loop goes on.
Raise_NextFile(att, exception) ==
    /\ attempt' = att
    /\ tried' = Append(tried, Iteration(att))
    /\ outcome' = [outcome EXCEPT ![cur.path] = "failed"]
    /\ error' = exception
    /\ pc' = "file_done"
    /\ UNCHANGED <<enable_isort, print_diff, changed, absent, idx, cur,
                   context_lines, written, printed>>

\* An exception leaves format_edited_parts.
Raise(att, exception) ==
    /\ attempt' = att
    /\ tried' = Append(tried, Iteration(att))
    /\ outcome' = [outcome EXCEPT ![cur.path] = "failed"]
    /\ error' = exception
    /\ pc' = "failed"
    /\ UNCHANGED <<enable_isort, print_diff, changed, absent, idx, cur,
                   context_lines, written, printed>>

\* Whether this iteration takes the early exit after step 3.
SkipsNow ==
    NoChangesAfterIsort(enable_isort,
                        EditedLinenums(EditedOpcodes(cur.head_lines,
                                                     splitlines(cur.edited_content)),
                                       context_lines),
                        cur.edited_content, cur.git_modified)

\* An iteration that ends at the early exit: black is not run.
AttemptSkip ==
    /\ pc = "attempt"
    /\ SkipsNow
    /\ LET edited_opcodes ==
               EditedOpcodes(cur.head_lines, splitlines(cur.edited_content))
           att == [NoAttempt EXCEPT
                      !.path = cur.path,
                      !.context_lines = context_lines,
                      !.edited_opcodes = edited_opcodes,
                      !.edited_linenums =
                          EditedLinenums(edited_opcodes, context_lines),
                      !.verdict = "skipped"]
       IN LeaveFile(att, "skipped")
    /\ UNCHANGED <<written, printed>>

\* An iteration in which run_black raises.
AttemptBlackFails ==
    /\ pc = "attempt"
    /\ ~SkipsNow
    /\ ~cur.formatted.ok
    /\ LET edited_opcodes ==
               EditedOpcodes(cur.head_lines, splitlines(cur.edited_content))
           att == [NoAttempt EXCEPT
                      !.path = cur.path,
                      !.context_lines = context_lines,
                      !.edited_opcodes = edited_opcodes,
                      !.edited_linenums =
                          EditedLinenums(edited_opcodes, context_lines),
                      !.verdict = "black_error"]
       IN Raise(att, "FormatterError")

\* Mutant: the result is written to the file in diff mode as well.
Accept_WritesAlways(att) ==
    LET difflines == unified_diff(splitlines(cur.git_modified), DiffedLines(att))
    IN /\ LeaveFile([att EXCEPT
                        !.emitted = Output("write", WrittenContent(att),
                                           <<>>, <<>>)],
                    "accepted")
       /\ written' = Append(written, cur.path)
       /\ printed' = IF print_diff /\ difflines.kind = "print"
                     THEN Append(printed, cur.path)
                     ELSE printed

\* else: the verified result is written, or its diff is printed, and the
\* retry loop is left.
Accept(att) ==
    LET difflines == unified_diff(splitlines(cur.git_modified), DiffedLines(att))
    IN IF print_diff
       THEN /\ LeaveFile([att EXCEPT !.emitted = difflines], "accepted")
            /\ printed' = IF difflines.kind = "print"
                          THEN Append(printed, cur.path)
                          ELSE printed
            /\ written' = written
       ELSE /\ LeaveFile([att EXCEPT
                             !.emitted = Output("write", WrittenContent(att),
                                                <<>>, <<>>)],
                         "accepted")
            /\ written' = Append(written, cur.path)
            /\ printed' = printed

\* continue: try again with one more line of context.
Retry(att) ==
    /\ attempt' = att
    /\ tried' = Append(tried, Iteration(att))
    /\ context_lines' = NextContext(context_lines)
    /\ UNCHANGED <<enable_isort, print_diff, changed, absent, pc, idx, cur,
                   written, printed, outcome, error>>

\* An iteration that reaches verify_ast_unchanged: on success the result is
\* emitted; on NotEquivalentError the loop goes on with the next context, or
\* raises the error again at the last context.
AttemptVerify ==
    /\ pc = "attempt"
    /\ ~SkipsNow
    /\ cur.formatted.ok
    /\ LET att == RunPipeline(cur, context_lines)
       IN \E equivalent \in verify_ast_unchanged(tried, att.result_str) :
              LET todo == AfterVerify(equivalent, context_lines,
                                      cur.max_context_lines)
                  judged == [att EXCEPT
                                !.verdict = IF equivalent THEN "ok" ELSE "fail"]
              IN CASE todo = "accept" -> Accept(judged)
                   [] todo = "retry" -> Retry(judged)
                   [] todo = "raise" -> Raise(judged, "NotEquivalentError")

Next ==
    \/ ReadSources
    \/ BeginFile(MaxDocLines)
    \/ Finish
    \/ AttemptSkip
    \/ AttemptBlackFails
    \/ AttemptVerify
    \/ EndFile

Spec == Init /\ [][Next]_vars

\* ------------------------------------------------------------------------
\* The chunk-reconciliation specification: the retry loop of one file whose
\* formatter succeeds, without isort, on longer documents
\* ------------------------------------------------------------------------

\* A file given by its lines at HEAD, its edited lines and black's output.
Sample(head_lines, edited, formatted) ==
    FileOf(PathOrder[1], head_lines, joinlines(edited), joinlines(edited),
           [ok |-> TRUE, lines |-> formatted])

\* The file of test_edited_linenums_differ_revision_vs_lines.
EightLines ==
    Sample(<<"1", "2", "3", "4", "5", "6", "7", "8">>,
           <<"1", "2", "three", "4", "5", "6", "seven", "8">>,
           <<"1", "2", "three", "4", "5", "6", "seven", "8">>)

\* The untouched file of the design's scenarios.
Untouched == Sample(<<"x=1">>, <<"x=1">>, <<"x = 1">>)

\* The single edited line of the design's scenarios, every line reformatted.
SingleEditAll ==
    Sample(<<"a", "b", "c">>, <<"a", "B", "c">>, <<"a'", "B'", "c'">>)

\* The single edited line, black changing nothing but that line.
SingleEditOne ==
    Sample(<<"a", "b", "c">>, <<"a", "B", "c">>, <<"a", "B'", "c">>)

PipeFiles ==
    {f \in FilesOf(PathOrder[1], FALSE, MaxPipeLines) : f.formatted.ok}
    \cup {EightLines, Untouched, SingleEditAll, SingleEditOne}

InitPipe ==
    /\ enable_isort = FALSE
    /\ print_diff = FALSE
    /\ changed = <<PathOrder[1]>>
    /\ absent = {}
    /\ pc = "attempt"
    /\ idx = 1
    /\ cur \in PipeFiles
    /\ context_lines = 0
    /\ attempt = NoAttempt
    /\ tried = <<>>
    /\ written = <<>>
    /\ printed = <<>>
    /\ outcome = [p \in Paths |-> "pending"]
    /\ error = ""

NextPipe ==
    \/ AttemptVerify
    \/ EndFile
    \/ Finish

SpecPipe == InitPipe /\ [][NextPipe]_vars

\* ------------------------------------------------------------------------
\* Properties
\* ------------------------------------------------------------------------

\* The retry loop of a file has run at least one iteration up to verification.
Verified == attempt.verdict \in {"ok", "fail"}

\* The lines of the edited document of the current file.
EditedDoc == splitlines(cur.edited_content)

\* The edited-line set of the current file for a context, from the documents.
EditedSet(context) ==
    ElemsOf(opcodes_to_edit_linenums(
                diff_and_get_opcodes(cur.head_lines, EditedDoc), context))

\* The candidate of the current file for a context, from the documents.
Candidate(context) ==
    choose_lines(opcodes_to_chunks(diff_and_get_opcodes(EditedDoc,
                                                        cur.formatted.lines),
                                   EditedDoc, cur.formatted.lines),
                 opcodes_to_edit_linenums(
                     diff_and_get_opcodes(cur.head_lines, EditedDoc), context))

\* C1: a result is written, or its diff printed, only by an iteration whose
\* verification succeeded, and what is emitted is the candidate that this
\* iteration verified; a candidate that failed verification is never emitted
\* and no write happens for a file while its retry loop is still running.
C1_EmitOnlyVerified ==
    /\ attempt.emitted.kind # "none" =>
           /\ attempt.verdict = "ok"
           /\ tried # <<>>
           /\ tried[Len(tried)].verdict = "ok"
           /\ tried[Len(tried)].context_lines = attempt.context_lines
           /\ tried[Len(tried)].result_str = attempt.result_str
           /\ attempt.result_str = joinlines(Candidate(attempt.context_lines))
    /\ attempt.emitted.kind = "write" =>
           /\ attempt.emitted.content = attempt.result_str
           /\ \A k \in DOMAIN tried :
                  tried[k].verdict = "fail"
                      => tried[k].result_str # attempt.emitted.content
    /\ attempt.emitted.kind = "print" =>
           /\ attempt.emitted.b = splitlines(attempt.result_str)
           /\ \A k \in DOMAIN tried :
                  tried[k].verdict = "fail"
                      => tried[k].result_str # joinlines(attempt.emitted.b)
    /\ \A k \in DOMAIN written :
           /\ outcome[written[k]] = "accepted"
           /\ written[k] = cur.path => attempt.emitted.kind = "write"
    /\ \A k \in DOMAIN printed :
           /\ outcome[printed[k]] = "accepted"
           /\ printed[k] = cur.path => attempt.emitted.kind = "print"

\* C1 witness: a result is written after an earlier candidate of the same
\* file failed verification.
C1_Witness ==
    /\ attempt.emitted.kind = "write"
    /\ Len(tried) >= 2
    /\ tried[1].verdict = "fail"
    /\ cur.path \in ElemsOf(written)

\* C2: the iterations of a file use the contexts 0, 1, 2, ... in this order,
\* every iteration before the last one failed verification, and an accepted
\* file is accepted by its last iteration, at the least context whose
\* candidate verifies.
C2_LeastContextAccepted ==
    /\ \A k \in DOMAIN tried : tried[k].context_lines = k - 1
    /\ \A k \in DOMAIN tried : k < Len(tried) => tried[k].verdict = "fail"
    /\ pc = "attempt" =>
           /\ context_lines = Len(tried)
           /\ \A k \in DOMAIN tried : tried[k].verdict = "fail"
    /\ (pc = "file_done" /\ outcome[cur.path] = "accepted") =>
           /\ tried # <<>>
           /\ tried[Len(tried)].verdict = "ok"
           /\ attempt.context_lines = Len(tried) - 1
           /\ \A c \in 0..(attempt.context_lines - 1) :
                  /\ tried[c + 1].verdict = "fail"
                  /\ tried[c + 1].result_str = joinlines(Candidate(c))
                  /\ tried[c + 1].result_str # attempt.result_str

\* C2 witness: verification fails at context 0 and succeeds at context 1, and
\* the file is accepted at context 1.
C2_Witness ==
    /\ pc = "file_done"
    /\ outcome[cur.path] = "accepted"
    /\ Len(tried) = 2
    /\ tried[1].verdict = "fail"
    /\ tried[2].verdict = "ok"
    /\ attempt.context_lines = 1

\* C3 (as claimed): the context never exceeds the number of lines of the
\* edited document, and NotEquivalentError ends the run exactly when
\* verification fails at the context equal to that number of lines.
C3_BoundIsLineCount ==
    pc \in {"attempt", "file_done", "failed"} /\ cur # NoFile =>
        /\ context_lines <= Len(EditedDoc)
        /\ attempt.context_lines <= Len(EditedDoc)
        /\ (attempt.verdict = "fail" /\ attempt.context_lines = Len(EditedDoc))
               <=> (pc = "failed" /\ error = "NotEquivalentError")

\* The state of the run says that the retry loop of the current file is over.
LoopOver == cur # NoFile /\ pc \in {"file_done", "failed"}

\* C4 (as claimed): a retry loop that is over ended in ACCEPTED or in the
\* terminal failure, after at most max_context_lines + 1 iterations.
C4_AcceptedOrFailed ==
    /\ cur # NoFile => Len(tried) <= cur.max_context_lines + 1
    /\ LoopOver => outcome[cur.path] \in {"accepted", "failed"}

\* An iteration of the retry loop can be made: it takes the early exit, or
\* run_black raises, or verify_ast_unchanged returns or raises.
CanAttempt ==
    \/ SkipsNow
    \/ ~cur.formatted.ok
    \/ verify_ast_unchanged(tried, joinlines(Candidate(context_lines))) # {}

\* C4 (amended), the part about states: the loop never makes more than
\* max_context_lines + 1 iterations, a loop that is over ended in ACCEPTED,
\* in the early exit or in the terminal failure, and a loop that is not over
\* can make its next iteration.
C4_Bounded ==
    /\ cur # NoFile =>
           /\ Len(tried) <= cur.max_context_lines + 1
           /\ context_lines <= cur.max_context_lines
    /\ LoopOver => outcome[cur.path] \in {"accepted", "skipped", "failed"}
    /\ pc = "attempt" => CanAttempt

\* C4 (amended), the part about steps: every iteration either ends the loop
\* or moves on to the next context, which stays within the bound.
C4_Progress ==
    pc = "attempt" =>
        \/ pc' \in {"file_done", "failed"}
        \/ /\ pc' = "attempt"
           /\ cur' = cur
           /\ context_lines' = context_lines + 1
           /\ context_lines' <= cur.max_context_lines
           /\ Len(tried') = Len(tried) + 1

\* C4 (amended): the retry loop of every file terminates, in ACCEPTED, in the
\* early exit after isort or in the terminal failure, after at most
\* max_context_lines + 1 iterations.
C4_Terminates == [](C4_Bounded) /\ [][C4_Progress]_vars

\* C4 witness: a loop that used all its max_context_lines + 1 iterations.
C4_Witness ==
    /\ pc = "failed"
    /\ error = "NotEquivalentError"
    /\ cur.max_context_lines >= 2
    /\ Len(tried) = cur.max_context_lines + 1

\* C10 (as claimed): a changed file that does not exist at HEAD is read as
\* an empty document, so collecting the reference sources never ends the run.
C10_AbsentReadsEmpty ==
    absent # {} => ~(pc = "failed" /\ error = "CalledProcessError")

\* The line numbers a chunk's original lines occupy.
Span(chunk) ==
    chunk.start_linenum..(chunk.start_linenum + Len(chunk.original_lines) - 1)

\* What the chooser is to emit for a chunk, given the edited-line set.
Pick(chunk, edited_set) ==
    IF Span(chunk) \cap edited_set # {} THEN chunk.reformatted_lines
    ELSE chunk.original_lines

\* C5: whenever the edited-line set of diff(reference, edited) is empty, as
\* it is when the reference equals the edited document, the chosen lines are
\* the edited document, whatever black returned.
C5_UntouchedKept ==
    Verified =>
        /\ EditedSet(attempt.context_lines) = {}
               => attempt.chosen_lines = EditedDoc
        /\ cur.head_lines = EditedDoc
               => EditedSet(attempt.context_lines) = {}
        /\ cur = Untouched => attempt.chosen_lines = <<"x=1">>

\* C5 witness: the untouched file of the scenario, black having changed its
\* only line, is kept as it was.
C5_Witness ==
    /\ Verified
    /\ cur = Untouched
    /\ cur.formatted.lines # EditedDoc
    /\ attempt.edited_linenums = <<>>
    /\ attempt.chosen_lines = <<"x=1">>

\* C6 (the chooser): the chosen lines are, chunk after chunk, the whole
\* reformatted lines of a chunk whose span holds an edited line and the
\* whole original lines of any other chunk.
C6_WholeAlternative ==
    Verified =>
        attempt.chosen_lines =
            Concat([k \in DOMAIN attempt.black_chunks |->
                       Pick(attempt.black_chunks[k],
                            EditedSet(attempt.context_lines))])

C7_Partition ==
    Verified =>
        /\ Len(attempt.black_chunks) = Len(attempt.opcodes)
        /\ \A k \in DOMAIN attempt.black_chunks :
               attempt.black_chunks[k].start_linenum = attempt.opcodes[k].j1 + 1
        /\ \A k \in DOMAIN attempt.opcodes :
               LET op == attempt.opcodes[k]
               IN /\ op.i1 = (IF k = 1 THEN 0 ELSE attempt.opcodes[k - 1].i2)
                  /\ op.j1 = (IF k = 1 THEN 0 ELSE attempt.opcodes[k - 1].j2)
                  /\ op.i1 <= op.i2
                  /\ op.j1 <= op.j2
        /\ Concat([k \in DOMAIN attempt.black_chunks |->
                      attempt.black_chunks[k].original_lines]) = EditedDoc
        /\ Concat([k \in DOMAIN attempt.black_chunks |->
                      attempt.black_chunks[k].reformatted_lines])
               = cur.formatted.lines

\* C7 witness: a partition of three or more chunks, one of them replacing
\* lines and one of them keeping lines.
C7_Witness ==
    /\ Verified
    /\ Len(attempt.black_chunks) >= 3
    /\ \E k \in DOMAIN attempt.opcodes : attempt.opcodes[k].tag = "replace"
    /\ \E k \in DOMAIN attempt.opcodes : attempt.opcodes[k].tag = "equal"
    /\ EditedDoc # cur.formatted.lines

\* The line numbers of the edited document within the context of a line in
\* the b range of an insert, delete or replace opcode.
NearEdits(opcodes, context, max_line) ==
    {n \in 1..max_line :
        \E k \in DOMAIN opcodes :
            /\ opcodes[k].tag \in {"insert", "delete", "replace"}
            /\ \E m \in (opcodes[k].j1 + 1)..opcodes[k].j2 :
                   n - m <= context /\ m - n <= context}

\* C8: the edited line numbers are ascending without duplicates and are
\* exactly the line numbers of the edited document within the context of a
\* line in the b range of an insert, delete or replace opcode of
\* diff(reference, edited); for the eight-line file with lines 3 and 7
\* changed they are [3, 7], [2, 3, 4, 6, 7, 8] and [1 .. 8] for the contexts
\* 0, 1 and 2 or 3.
C8_EditedLinenums ==
    Verified =>
        LET got == attempt.edited_linenums
            context == attempt.context_lines
        IN /\ \A j, k \in DOMAIN got : j < k => got[j] < got[k]
           /\ ElemsOf(got) =
                  NearEdits(diff_and_get_opcodes(cur.head_lines, EditedDoc),
                            context, Len(EditedDoc))
           /\ cur = EightLines =>
                  /\ context = 0 => got = <<3, 7>>
                  /\ context = 1 => got = <<2, 3, 4, 6, 7, 8>>
                  /\ context \in {2, 3} => got = <<1, 2, 3, 4, 5, 6, 7, 8>>

\* C8 witness: the eight-line file at context 1.
C8_Witness ==
    /\ Verified
    /\ cur = EightLines
    /\ attempt.context_lines = 1
    /\ attempt.edited_linenums = <<2, 3, 4, 6, 7, 8>>

\* C9: the edited-line set handed to the chooser in an iteration holds the
\* edited-line set of every smaller context, so it never shrinks from one
\* retry to the next.
C9_ContextMonotone ==
    Verified =>
        /\ \A c \in 0..attempt.context_lines :
               EditedSet(c) \subseteq ElemsOf(attempt.edited_linenums)
        /\ \A c1, c2 \in 0..attempt.context_lines :
               c1 <= c2 => EditedSet(c1) \subseteq EditedSet(c2)

\* C9 witness: a retry whose edited-line set is larger than the one before.
C9_Witness ==
    /\ Verified
    /\ attempt.context_lines = 1
    /\ EditedSet(0) # {}
    /\ EditedSet(0) # ElemsOf(attempt.edited_linenums)
    /\ EditedSet(0) \subseteq ElemsOf(attempt.edited_linenums)

\* The files from the one being processed to the end of the processing order.
FromCurrent == {changed[k] : k \in {j \in DOMAIN changed : j >= idx}}

\* C11, the part about states: a file fails only by ending the run, with the
\* formatter's error surfaced by the iteration that ran the formatter and
\* NotEquivalentError raised at the context bound after every smaller context
\* failed; the failing file and the files after it have never been written.
C11_FailureStops ==
    /\ \A k \in DOMAIN changed :
           outcome[changed[k]] = "failed" =>
               /\ pc = "failed"
               /\ idx = k
               /\ cur.path = changed[k]
    /\ pc = "failed" =>
           /\ error \in {"CalledProcessError", "FormatterError",
                         "NotEquivalentError"}
           /\ FromCurrent \cap ElemsOf(written) = {}
           /\ \A k \in DOMAIN changed :
                  k > idx => outcome[changed[k]] = "pending"
    /\ (pc = "failed" /\ error = "FormatterError") =>
           /\ ~cur.formatted.ok
           /\ attempt.verdict = "black_error"
           /\ attempt.context_lines = tried[Len(tried)].context_lines
           /\ \A k \in DOMAIN tried :
                  tried[k].verdict = "black_error" => k = Len(tried)
           /\ outcome[cur.path] = "failed"
    /\ (pc = "failed" /\ error = "NotEquivalentError") =>
           /\ attempt.verdict = "fail"
           /\ attempt.context_lines = cur.max_context_lines
           /\ \A k \in DOMAIN tried : tried[k].verdict = "fail"
           /\ outcome[cur.path] = "failed"

\* C11, the part about steps: once the run has failed nothing is written or
\* printed and no file is taken up again.
C11_NothingAfterFailure ==
    pc = "failed" =>
        /\ pc' = "failed"
        /\ written' = written
        /\ printed' = printed
        /\ outcome' = outcome
        /\ idx' = idx

\* C11: a fatal error on one file (the formatter's error, surfaced by the
\* attempt it occurs in, or NotEquivalentError at the context bound) ends the
\* whole run: from then on nothing is written for the failing file or for
\* any file later in the processing order.
C11_FatalAbortsRun == [](C11_FailureStops) /\ [][C11_NothingAfterFailure]_vars

\* C11 witness: the first of two changed files fails in write mode, the
\* second one is left untouched.
C11_Witness ==
    /\ pc = "failed"
    /\ error \in {"FormatterError", "NotEquivalentError"}
    /\ ~print_diff
    /\ idx = 1
    /\ Len(changed) = 2
    /\ outcome[changed[2]] = "pending"
    /\ written = <<>>

\* C11 witness: the second file fails after the first one was written.
C11_WitnessSecond ==
    /\ pc = "failed"
    /\ error = "FormatterError"
    /\ idx = 2
    /\ written = <<changed[1]>>

\* C12, the part about states: in diff mode no file is ever written; in write
\* mode a file has been written once if it was accepted and never otherwise,
\* and what the accepting iteration wrote is the result it verified.
C12_WritesFollowMode ==
    /\ print_diff => written = <<>>
    /\ ~print_diff =>
           /\ printed = <<>>
           /\ \A p \in Paths :
                  Count(written, p) = (IF outcome[p] = "accepted" THEN 1 ELSE 0)
           /\ (pc = "file_done" /\ outcome[cur.path] = "accepted") =>
                  /\ attempt.verdict = "ok"
                  /\ attempt.emitted.kind = "write"
                  /\ attempt.emitted.content = attempt.result_str
                  /\ attempt.result_str = joinlines(Candidate(context_lines))
                  /\ written[Len(written)] = cur.path

\* C12, the part about steps: in diff mode no step writes; in write mode a
\* step writes at most one file, the one it accepts.
C12_WriteSteps ==
    /\ print_diff => written' = written
    /\ written' # written =>
           /\ ~print_diff
           /\ written' = Append(written, cur.path)
           /\ outcome[cur.path] = "pending"
           /\ outcome'[cur.path] = "accepted"

\* C12: with print_diff set, format_edited_parts writes no file, whatever the
\* verification outcomes; with print_diff unset, each accepted file is
\* written exactly once, with the verified result.
C12_DiffModeWritesNothing == [](C12_WritesFollowMode) /\ [][C12_WriteSteps]_vars

\* C12 witness: a run in diff mode that accepted both files, printing a diff,
\* and returned.
C12_Witness ==
    /\ print_diff
    /\ pc = "done"
    /\ Len(changed) = 2
    /\ \A k \in DOMAIN changed : outcome[changed[k]] = "accepted"
    /\ printed # <<>>

\* C12 witness: a run in write mode that accepted and wrote both files.
C12_WitnessWriteMode ==
    /\ ~print_diff
    /\ pc = "done"
    /\ written = changed
    /\ Len(changed) = 2

\* The condition of the early exit for the current iteration, from the
\* documents of the file.
UnchangedByIsort ==
    /\ enable_isort
    /\ cur.edited_content = cur.git_modified
    /\ EditedSet(context_lines) = {}

\* C13, the part about states: a file is skipped only with isort enabled, by
\* an iteration that ran neither the formatter nor the verifier, and nothing
\* is written or printed for it.
C13_SkippedUntouched ==
    /\ \A p \in Paths :
           outcome[p] = "skipped" =>
               /\ enable_isort
               /\ p \notin ElemsOf(written)
               /\ p \notin ElemsOf(printed)
    /\ attempt.verdict = "skipped" =>
           /\ pc = "file_done"
           /\ outcome[cur.path] = "skipped"
           /\ UnchangedByIsort
           /\ attempt.opcodes = <<>>
           /\ attempt.black_chunks = <<>>
           /\ attempt.emitted = NoOutput
           /\ \A k \in DOMAIN tried : tried[k].verdict = "skipped"
    /\ (pc = "file_done" /\ UnchangedByIsort) => outcome[cur.path] = "skipped"

\* C13, the part about steps: an iteration for which the condition holds
\* leaves the retry loop without output, and the outer loop then takes the
\* next file; an iteration for which it does not hold skips nothing.
C13_SkipSteps ==
    /\ (pc = "attempt" /\ UnchangedByIsort) =>
           /\ pc' = "file_done"
           /\ attempt'.verdict = "skipped"
           /\ outcome'[cur.path] = "skipped"
           /\ written' = written
           /\ printed' = printed
           /\ error' = error
    /\ (pc = "attempt" /\ ~UnchangedByIsort) =>
           /\ attempt'.verdict # "skipped"
           /\ outcome'[cur.path] # "skipped"
    /\ (pc = "file_done" /\ outcome[cur.path] = "skipped") =>
           /\ pc' = "next_file"
           /\ idx' = idx + 1
           /\ written' = written
           /\ printed' = printed

\* C13: when import sorting is enabled and left the content unchanged and no
\* line counts as edited, the iteration skips formatting: neither the
\* formatter nor the verifier runs, nothing is written or printed for the
\* file and the next file follows; without import sorting the early exit is
\* never taken.
C13_EarlyExit == [](C13_SkippedUntouched) /\ [][C13_SkipSteps]_vars

\* C13 witness: the first file was skipped and the second one is in its
\* retry loop.
C13_Witness ==
    /\ pc = "attempt"
    /\ idx = 2
    /\ outcome[changed[1]] = "skipped"
    /\ written = <<>>
    /\ printed = <<>>

====
